---- MODULE Spec2Model ----
(***************************************************************************)
(* Model of android-log (src/src/main.c): the main thread, the device      *)
(* discovery thread (run_find_devices / find_android_devices) and one      *)
(* run_logcat thread per device struct, with the five pthread mutexes, the *)
(* two strmaps and the two static colour counters.                         *)
(*                                                                         *)
(* Every step is one shared-memory operation of the C code or one blocking *)
(* call.  A mutex is taken in a step of its own, so the state in which a   *)
(* thread holds it is visible; the strmap call made under the mutex and    *)
(* the unlock that follows it form the next step.  Thread-local code is    *)
(* folded into the step that follows it, and a local that is dead is reset *)
(* to its initial value.                                                   *)
(***************************************************************************)
EXTENDS Integers, Sequences, FiniteSets, TLC

(* ---- program constants ---- *)
COLOR_NMAX == 12
COLOR_RED == 0
COLOR_BLUE == 3
COLOR_CYAN == 5
RETRIES_NMAX == 10
DEVICE_NAME_NCHARS == 64
LINE_NCHARS == 1024
NULL == -1

(* ---- bounds of the model ---- *)
MaxDevices == 13      \* device structs malloc'ed in a run of quiet devices
MaxFairDevices == 3   \* device structs malloc'ed in a run checked for liveness
MaxListing == 1       \* lines one `adb devices` listing yields before EOF
MaxLines == 3         \* log lines read by all workers together
MaxOpenFails == 12    \* failed popen() calls of all workers together
MaxBadgeLines == 2    \* log lines read in a run that reports every level

(* ---- inputs ---- *)
\* A serial of DEVICE_NAME_NCHARS hex digits.
LongId == "0123456789ABCDEF0123456789abcdef0123456789ABCDEF0123456789abcdef"

Ids == {"0A", "1B", LongId}            \* serials the device source reports
SeedTags == {"dalvikvm", "Process", "ActivityManager", "ActivityThread"}
LineTags == {"ActivityManager", "GPS"} \* tags the log sources report
Tags == SeedTags \cup LineTags

\* Level characters of log lines the pattern ([A-Z]) matches: the six the
\* switch knows and one it does not.
Levels == {"D", "E", "F", "I", "V", "W", "X"}

\* In a run with log lines or failing sources every serial attaches once.
BusyDevices == Cardinality({i \in Ids : Len(i) < DEVICE_NAME_NCHARS})

\* What the device source and the log sources do in one run: how many devices
\* attach over the run, how many log lines the devices produce, how many
\* times starting logcat fails, which levels the log lines carry and which
\* serials the listing reports.
Profiles ==
  { [devices |-> MaxDevices, lines |-> 0, fails |-> 0, levels |-> {"I"},
     ids |-> {"0A", "1B"}],
    [devices |-> BusyDevices, lines |-> MaxLines, fails |-> 0, levels |-> {"I"},
     ids |-> {"0A", "1B"}],
    [devices |-> BusyDevices, lines |-> 0, fails |-> MaxOpenFails, levels |-> {"I"},
     ids |-> {"0A", "1B"}],
    [devices |-> 1, lines |-> MaxBadgeLines, fails |-> 0, levels |-> Levels,
     ids |-> {"0A", "1B"}],
    [devices |-> 1, lines |-> 0, fails |-> 0, levels |-> {"I"},
     ids |-> {LongId}] }

(* ---- threads and mutexes ---- *)
Free == <<"free", 0>>
MainT == <<"main", 0>>
DiscT == <<"disc", 0>>
W(k) == <<"w", k>>

\* pthread_mutex_lock returns only when the mutex is free.
CanLock(m) == m = Free

\* pthread_mutex_unlock by thread t.  Unlocking a default mutex the caller
\* does not hold is undefined: the build either releases the mutex whoever
\* holds it (glibc normal mutex) or leaves it alone (an EPERM return).
UnlockOutcomes(m, t) == IF m = t THEN {Free} ELSE {Free, m}

VARIABLES
  mpc,                              \* main: position
  dpc, listed, dname, ddev,         \* discovery: position, lines read, name, device
  shutdown,
  device_map, tag_map,              \* the two strmaps
  dev_next_color, tag_next_color,   \* the two static next_color counters
  device_map_lock, tag_map_lock, line_lock, next_color_lock, color_lock,
  wk,                               \* device structs and their run_logcat threads
  streams,                          \* per device struct: logcat pipes open
  out,                              \* bytes written to stdout, in chunks
  devAddLog, tagAddLog, tagAllocLog,\* history: strmap_add / colour allocations
  env                               \* input the sources still hold

vars == <<mpc, dpc, listed, dname, ddev, shutdown, device_map, tag_map,
          dev_next_color, tag_next_color, device_map_lock, tag_map_lock,
          line_lock, next_color_lock, color_lock, wk, streams, out,
          devAddLog, tagAddLog, tagAllocLog, env>>

mainVars == <<mpc>>
discVars == <<dpc, listed, dname, ddev>>
mapVars == <<device_map, tag_map>>
ctrVars == <<dev_next_color, tag_next_color>>
lockVars == <<device_map_lock, tag_map_lock, line_lock, next_color_lock, color_lock>>
histVars == <<devAddLog, tagAddLog, tagAllocLog>>
envVars == <<env>>

\* Tag colours main() seeds before any thread exists.
SeedColor(t) ==
  IF t \in {"dalvikvm", "Process"} THEN COLOR_BLUE
  ELSE IF t \in {"ActivityManager", "ActivityThread"} THEN COLOR_CYAN
  ELSE NULL

\* The state when main() has set up the maps, with the input e ahead.
InitWith(e) ==
  /\ mpc = "m_create"
  /\ dpc = "unborn" /\ listed = 0 /\ dname = "" /\ ddev = 0
  /\ shutdown = FALSE
  /\ device_map = [i \in Ids |-> NULL]
  /\ tag_map = [t \in Tags |-> SeedColor(t)]
  /\ dev_next_color = COLOR_RED /\ tag_next_color = COLOR_RED
  /\ device_map_lock = Free /\ tag_map_lock = Free /\ line_lock = Free
  /\ next_color_lock = Free /\ color_lock = Free
  /\ wk = <<>>
  /\ streams = <<>>
  /\ out = <<>>
  /\ devAddLog = <<>> /\ tagAddLog = <<>> /\ tagAllocLog = <<>>
  /\ env = e

Init == \E e \in Profiles : InitWith(e)

(* ======================= main ======================= *)

\* pthread_create(&device_mon, NULL, run_find_devices, NULL)
M_Create ==
  /\ mpc = "m_create"
  /\ mpc' = "m_sleep"
  /\ dpc' = "d_check"
  /\ UNCHANGED <<streams, listed, dname, ddev, shutdown, mapVars, ctrVars,
                 lockVars, wk, out, histVars, envVars>>

\* sleep(1) returns; main then asks for device_map_lock
M_Sleep ==
  /\ mpc = "m_sleep"
  /\ mpc' = "m_lock"
  /\ UNCHANGED <<streams, discVars, shutdown, mapVars, ctrVars, lockVars, wk,
                 out, histVars, envVars>>

M_Lock ==
  /\ mpc = "m_lock"
  /\ CanLock(device_map_lock)
  /\ device_map_lock' = MainT
  /\ mpc' = "m_count"
  /\ UNCHANGED <<streams, discVars, shutdown, mapVars, ctrVars, tag_map_lock,
                 line_lock, next_color_lock, color_lock, wk, out, histVars,
                 envVars>>

\* strmap_iterate(&device_map, handle_count_member, &count); unlock; report
\* "Waiting on device" if the count is 0; block in pthread_join(device_mon)
M_Count ==
  /\ mpc = "m_count"
  /\ device_map_lock' \in UnlockOutcomes(device_map_lock, MainT)
  /\ mpc' = "m_join"
  /\ UNCHANGED <<streams, discVars, shutdown, mapVars, ctrVars, tag_map_lock,
                 line_lock, next_color_lock, color_lock, wk, out, histVars,
                 envVars>>

MainNext == M_Create \/ M_Sleep \/ M_Lock \/ M_Count

(* ======================= discovery thread ======================= *)

\* while (!shutdown) { find_android_devices(): popen("adb devices") ...
D_Popen ==
  /\ dpc = "d_check"
  /\ ~shutdown
  /\ dpc' = "d_fgets"
  /\ UNCHANGED <<streams, mainVars, listed, dname, ddev, shutdown, mapVars, ctrVars,
                 lockVars, wk, out, histVars, envVars>>

\* fgets() returns a line the listing pattern does not match: continue
D_FgetsNoMatch ==
  /\ dpc = "d_fgets"
  /\ listed < MaxListing
  /\ listed' = listed + 1
  /\ UNCHANGED <<streams, mainVars, dpc, dname, ddev, shutdown, mapVars, ctrVars,
                 lockVars, wk, out, histVars, envVars>>

\* The characters of the listing line "<serial>\tdevice\n".
ListingLineLen(i) == Len(i) + Len("\tdevice") + 1

\* memset(name, 0, sizeof(name)); strncpy(name, &line[start], len): what
\* name[] then holds as a string.  A capture of DEVICE_NAME_NCHARS characters
\* leaves the buffer without terminator, a longer one is written past its
\* end: both undefined, the string read from name[] afterwards is the capture
\* or any other string.
CopiedName(i) == IF Len(i) + 1 <= DEVICE_NAME_NCHARS THEN {i} ELSE Ids

\* fgets() returns a line whose first group is the serial i; the name is
\* copied and the thread asks for device_map_lock
D_FgetsMatch(i) ==
  /\ dpc = "d_fgets"
  /\ listed < MaxListing
  /\ Len(wk) < env.devices
  /\ i \in env.ids
  /\ ListingLineLen(i) <= LINE_NCHARS - 1
  /\ listed' = listed + 1
  /\ dname' \in CopiedName(i)
  /\ dpc' = "d_lock1"
  /\ UNCHANGED <<streams, mainVars, ddev, shutdown, mapVars, ctrVars, lockVars, wk,
                 out, histVars, envVars>>

\* fgets() returns NULL: regfree, back in run_find_devices, sleep(3)
D_FgetsEof ==
  /\ dpc = "d_fgets"
  /\ dpc' = "d_sleep"
  /\ listed' = 0
  /\ UNCHANGED <<streams, mainVars, dname, ddev, shutdown, mapVars, ctrVars,
                 lockVars, wk, out, histVars, envVars>>

D_Sleep ==
  /\ dpc = "d_sleep"
  /\ dpc' = "d_check"
  /\ UNCHANGED <<streams, mainVars, listed, dname, ddev, shutdown, mapVars, ctrVars,
                 lockVars, wk, out, histVars, envVars>>

D_Lock1 ==
  /\ dpc = "d_lock1"
  /\ CanLock(device_map_lock)
  /\ device_map_lock' = DiscT
  /\ dpc' = "d_get"
  /\ UNCHANGED <<streams, mainVars, listed, dname, ddev, shutdown, mapVars, ctrVars,
                 tag_map_lock, line_lock, next_color_lock, color_lock, wk,
                 out, histVars, envVars>>

\* (the same path without its unlock)
KnownDeviceUnlockMissing(m, t) == {m}

\* The mutex after the unlock on the name-already-known path.
KnownDeviceUnlock(m, t) == UnlockOutcomes(m, t)

\* (a lookup that finds no name)
DeviceNeverKnown(map, name) == FALSE

\* strmap_get(&device_map, name) != NULL
DeviceKnown(map, name) == map[name] # NULL

\* strmap_get(&device_map, name) != NULL: unlock, continue
D_GetKnown ==
  /\ dpc = "d_get"
  /\ DeviceKnown(device_map, dname)
  /\ device_map_lock' \in KnownDeviceUnlock(device_map_lock, DiscT)
  /\ dpc' = "d_fgets"
  /\ dname' = ""
  /\ UNCHANGED <<streams, mainVars, listed, ddev, shutdown, mapVars, ctrVars,
                 tag_map_lock, line_lock, next_color_lock, color_lock, wk,
                 out, histVars, envVars>>

\* strmap_get(&device_map, name) == NULL: unlock, go on to create the device
D_GetNew ==
  /\ dpc = "d_get"
  /\ ~DeviceKnown(device_map, dname)
  /\ device_map_lock' \in UnlockOutcomes(device_map_lock, DiscT)
  /\ dpc' = "d_nlock"
  /\ UNCHANGED <<streams, mainVars, listed, dname, ddev, shutdown, mapVars, ctrVars,
                 tag_map_lock, line_lock, next_color_lock, color_lock, wk,
                 out, histVars, envVars>>

\* malloc the device, copy the name, then pthread_mutex_lock(&next_color_lock)
D_ColorLock ==
  /\ dpc = "d_nlock"
  /\ CanLock(next_color_lock)
  /\ next_color_lock' = DiscT
  /\ dpc' = "d_color"
  /\ UNCHANGED <<streams, mainVars, listed, dname, ddev, shutdown, mapVars, ctrVars,
                 device_map_lock, tag_map_lock, line_lock, color_lock, wk,
                 out, histVars, envVars>>

\* (a counter that is not advanced)
DevNextColorSkip(c) == c

\* ++next_color; if (next_color == COLOR_NMAX) next_color = COLOR_RED;
DevNextColor(c) == IF c + 1 = COLOR_NMAX THEN COLOR_RED ELSE c + 1

\* A device struct as find_android_devices() fills it in.
NewDevice(name, color) ==
  [pc |-> "unstarted", name |-> name, color |-> color, fh |-> NULL,
   nopen |-> 0, retries |-> 0, streamed |-> FALSE, nread |-> 0,
   level |-> "", tag |-> "", tcolor |-> NULL]

\* device->color = next_color; ++next_color with wrap; unlock
D_Color ==
  /\ dpc = "d_color"
  /\ wk' = Append(wk, NewDevice(dname, dev_next_color))
  /\ streams' = Append(streams, 0)
  /\ ddev' = Len(wk) + 1
  /\ dname' = ""
  /\ dev_next_color' = DevNextColor(dev_next_color)
  /\ next_color_lock' \in UnlockOutcomes(next_color_lock, DiscT)
  /\ dpc' = "d_lock2"
  /\ UNCHANGED <<mainVars, listed, shutdown, mapVars, tag_next_color,
                 device_map_lock, tag_map_lock, line_lock, color_lock,
                 out, histVars, envVars>>

D_Lock2 ==
  /\ dpc = "d_lock2"
  /\ CanLock(device_map_lock)
  /\ device_map_lock' = DiscT
  /\ dpc' = "d_add"
  /\ UNCHANGED <<streams, mainVars, listed, dname, ddev, shutdown, mapVars, ctrVars,
                 tag_map_lock, line_lock, next_color_lock, color_lock, wk,
                 out, histVars, envVars>>

\* strmap_add(map, key, v): places v unless the key is already in the map
\* (then it fails with EEXIST and the map is unchanged).
StrmapAdd(map, key, v) == IF map[key] # NULL THEN map ELSE [map EXCEPT ![key] = v]

\* strmap_add(&device_map, device->name, device); unlock
D_Add ==
  /\ dpc = "d_add"
  /\ device_map' = StrmapAdd(device_map, wk[ddev].name, ddev)
  /\ devAddLog' = IF device_map[wk[ddev].name] = NULL
                  THEN Append(devAddLog, wk[ddev].color) ELSE devAddLog
  /\ device_map_lock' \in UnlockOutcomes(device_map_lock, DiscT)
  /\ dpc' = "d_create"
  /\ UNCHANGED <<streams, mainVars, listed, dname, ddev, shutdown, tag_map, ctrVars,
                 tag_map_lock, line_lock, next_color_lock, color_lock, wk,
                 out, tagAddLog, tagAllocLog, envVars>>

\* pthread_create(&device->thread, NULL, run_logcat, device)
D_Create ==
  /\ dpc = "d_create"
  /\ wk' = [wk EXCEPT ![ddev].pc = "popen0"]
  /\ dpc' = "d_fgets"
  /\ ddev' = 0
  /\ UNCHANGED <<streams, mainVars, listed, dname, shutdown, mapVars, ctrVars,
                 lockVars, out, histVars, envVars>>

DiscNext ==
  \/ D_Popen \/ D_FgetsNoMatch \/ (\E i \in Ids : D_FgetsMatch(i))
  \/ D_FgetsEof \/ D_Sleep \/ D_Lock1 \/ D_GetKnown \/ D_GetNew
  \/ D_ColorLock \/ D_Color \/ D_Lock2 \/ D_Add \/ D_Create

(* ======================= run_logcat threads ======================= *)

Workers == 1..Len(wk)

\* Device struct k exists and its thread is at position pc.
At(k, pc) == k \in Workers /\ wk[k].pc = pc

\* popen() by thread k returns a stream: one more pipe to an `adb logcat`
\* is open.  No code of the program calls pclose().
PopenStream(str, k) == [str EXCEPT ![k] = @ + 1]

\* d->fh = popen(cmd, "r") ahead of the retry loop: a handle, or NULL
W_Popen0(k) ==
  /\ At(k, "popen0")
  /\ \/ /\ wk' = [wk EXCEPT ![k].pc = "popen", ![k].fh = 1, ![k].nopen = @ + 1]
        /\ streams' = PopenStream(streams, k)
        /\ UNCHANGED env
     \/ /\ env.fails > 0
        /\ env' = [env EXCEPT !.fails = @ - 1]
        /\ wk' = [wk EXCEPT ![k].pc = "popen", ![k].fh = NULL]
        /\ UNCHANGED streams
  /\ UNCHANGED <<mainVars, discVars, shutdown, mapVars, ctrVars, lockVars,
                 out, histVars>>

\* d->fh = popen(cmd, "r") in the loop succeeds: on to the read loop
W_PopenOk(k) ==
  /\ At(k, "popen")
  /\ wk' = [wk EXCEPT ![k].pc = "fgets", ![k].fh = 1, ![k].nopen = @ + 1,
                      ![k].streamed = TRUE, ![k].retries = 0]
  /\ streams' = PopenStream(streams, k)
  /\ UNCHANGED <<mainVars, discVars, shutdown, mapVars, ctrVars, lockVars,
                 out, histVars, envVars>>

\* Where run_logcat goes after a failed popen() that made the count `retries`:
\* return NULL past RETRIES_NMAX, else sleep(1) and try again.
AfterOpenFailure(retries) == IF retries > RETRIES_NMAX THEN "exited" ELSE "sleep"

\* popen() in the loop fails: ++retries; give up or sleep
W_PopenFail(k) ==
  /\ At(k, "popen")
  /\ env.fails > 0
  /\ env' = [env EXCEPT !.fails = @ - 1]
  /\ wk' = [wk EXCEPT ![k].fh = NULL, ![k].retries = @ + 1,
                      ![k].pc = AfterOpenFailure(wk[k].retries + 1)]
  /\ UNCHANGED <<streams, mainVars, discVars, shutdown, mapVars, ctrVars, lockVars,
                 out, histVars>>

W_Sleep(k) ==
  /\ At(k, "sleep")
  /\ wk' = [wk EXCEPT ![k].pc = "popen"]
  /\ UNCHANGED <<streams, mainVars, discVars, shutdown, mapVars, ctrVars, lockVars,
                 out, histVars, envVars>>

\* while (!shutdown && fgets(...) != NULL): the loop ends
W_LoopEnd(k) ==
  /\ At(k, "fgets")
  /\ shutdown \/ TRUE      \* the flag is set, or fgets() returned NULL
  /\ wk' = [wk EXCEPT ![k].pc = "term_lock"]
  /\ UNCHANGED <<streams, mainVars, discVars, shutdown, mapVars, ctrVars, lockVars,
                 out, histVars, envVars>>

\* (a non-matching line that ends the read loop)
AfterNoMatchBreak == "term_lock"

\* Where run_logcat goes at REG_NOMATCH: `continue`, the loop condition.
AfterNoMatch == "fgets"

\* fgets() returns a line the log pattern does not match: report, continue.
\* nread counts the lines the thread has read from d->fh.
W_FgetsNoMatch(k) ==
  /\ At(k, "fgets")
  /\ ~shutdown
  /\ env.lines > 0
  /\ env' = [env EXCEPT !.lines = @ - 1]
  /\ wk' = [wk EXCEPT ![k].nread = @ + 1, ![k].pc = AfterNoMatch]
  /\ UNCHANGED <<streams, mainVars, discVars, shutdown, mapVars, ctrVars, lockVars,
                 out, histVars>>

\* fgets() returns a matching line with level lv and tag t; device, time and
\* owner are formatted and the thread asks for tag_map_lock
W_FgetsMatch(k, t, lv) ==
  /\ At(k, "fgets")
  /\ ~shutdown
  /\ env.lines > 0
  /\ lv \in env.levels
  /\ env' = [env EXCEPT !.lines = @ - 1]
  /\ wk' = [wk EXCEPT ![k].pc = "tag_lock1", ![k].nread = @ + 1,
                      ![k].level = lv, ![k].tag = t, ![k].tcolor = NULL]
  /\ UNCHANGED <<streams, mainVars, discVars, shutdown, mapVars, ctrVars, lockVars,
                 out, histVars>>

W_TagLock1(k) ==
  /\ At(k, "tag_lock1")
  /\ CanLock(tag_map_lock)
  /\ tag_map_lock' = W(k)
  /\ wk' = [wk EXCEPT ![k].pc = "tag_get"]
  /\ UNCHANGED <<streams, mainVars, discVars, shutdown, mapVars, ctrVars,
                 device_map_lock, line_lock, next_color_lock, color_lock,
                 out, histVars, envVars>>

\* Where run_logcat goes with the looked-up colour: if (color == NULL) the
\* allocation, else the branch that unlocks tag_map_lock once more.
AfterTagGet(color) == IF color = NULL THEN "color_lock" ELSE "tag_unlock_else"

\* enum color *color = strmap_get(&tag_map, match); unlock
W_TagGet(k) ==
  /\ At(k, "tag_get")
  /\ tag_map_lock' \in UnlockOutcomes(tag_map_lock, W(k))
  /\ wk' = [wk EXCEPT ![k].tcolor = tag_map[wk[k].tag],
                      ![k].pc = AfterTagGet(tag_map[wk[k].tag])]
  /\ UNCHANGED <<streams, mainVars, discVars, shutdown, mapVars, ctrVars,
                 device_map_lock, line_lock, next_color_lock, color_lock,
                 out, histVars, envVars>>

\* color = malloc; pthread_mutex_lock(&color_lock)
W_ColorLock(k) ==
  /\ At(k, "color_lock")
  /\ CanLock(color_lock)
  /\ color_lock' = W(k)
  /\ wk' = [wk EXCEPT ![k].pc = "color_alloc"]
  /\ UNCHANGED <<streams, mainVars, discVars, shutdown, mapVars, ctrVars,
                 device_map_lock, tag_map_lock, line_lock, next_color_lock,
                 out, histVars, envVars>>

\* ++next_color; if (next_color == COLOR_NMAX) next_color = COLOR_RED;
TagNextColor(c) == IF c + 1 = COLOR_NMAX THEN COLOR_RED ELSE c + 1

\* *color = next_color; ++next_color with wrap; unlock
W_ColorAlloc(k) ==
  /\ At(k, "color_alloc")
  /\ wk' = [wk EXCEPT ![k].pc = "tag_lock2", ![k].tcolor = tag_next_color]
  /\ tag_next_color' = TagNextColor(tag_next_color)
  /\ tagAllocLog' = Append(tagAllocLog, [tag |-> wk[k].tag, color |-> tag_next_color])
  /\ color_lock' \in UnlockOutcomes(color_lock, W(k))
  /\ UNCHANGED <<streams, mainVars, discVars, shutdown, mapVars, dev_next_color,
                 device_map_lock, tag_map_lock, line_lock, next_color_lock,
                 out, devAddLog, tagAddLog, envVars>>

W_TagLock2(k) ==
  /\ At(k, "tag_lock2")
  /\ CanLock(tag_map_lock)
  /\ tag_map_lock' = W(k)
  /\ wk' = [wk EXCEPT ![k].pc = "tag_add"]
  /\ UNCHANGED <<streams, mainVars, discVars, shutdown, mapVars, ctrVars,
                 device_map_lock, line_lock, next_color_lock, color_lock,
                 out, histVars, envVars>>

\* strmap_add(&tag_map, match, color); unlock
W_TagAdd(k) ==
  /\ At(k, "tag_add")
  /\ tag_map' = StrmapAdd(tag_map, wk[k].tag, wk[k].tcolor)
  /\ tagAddLog' = IF tag_map[wk[k].tag] = NULL
                  THEN Append(tagAddLog, wk[k].tag) ELSE tagAddLog
  /\ tag_map_lock' \in UnlockOutcomes(tag_map_lock, W(k))
  /\ wk' = [wk EXCEPT ![k].pc = "line_lock"]
  /\ UNCHANGED <<streams, mainVars, discVars, shutdown, device_map, ctrVars,
                 device_map_lock, line_lock, next_color_lock, color_lock,
                 out, devAddLog, tagAllocLog, envVars>>

\* } else { pthread_mutex_unlock(&tag_map_lock); }  -- a second unlock
W_TagUnlockElse(k) ==
  /\ At(k, "tag_unlock_else")
  /\ tag_map_lock' \in UnlockOutcomes(tag_map_lock, W(k))
  /\ wk' = [wk EXCEPT ![k].pc = "line_lock"]
  /\ UNCHANGED <<streams, mainVars, discVars, shutdown, mapVars, ctrVars,
                 device_map_lock, line_lock, next_color_lock, color_lock,
                 out, histVars, envVars>>

\* (a lock that never waits)
CanLockLineAlways(m) == TRUE

\* pthread_mutex_lock(&line_lock) returns only when line_lock is free.
CanLockLine(m) == CanLock(m)

\* tag, badge and message are formatted; pthread_mutex_lock(&line_lock)
W_LineLock(k) ==
  /\ At(k, "line_lock")
  /\ CanLockLine(line_lock)
  /\ line_lock' = W(k)
  /\ wk' = [wk EXCEPT ![k].pc = "fputs"]
  /\ UNCHANGED <<streams, mainVars, discVars, shutdown, mapVars, ctrVars,
                 device_map_lock, tag_map_lock, next_color_lock, color_lock,
                 out, histVars, envVars>>

\* (a switch that knows no level)
BadgeNone(lv) == <<>>

\* switch (*match): the badge sprintf'ed for the level character, as its SGR
\* parameters, its three characters and whether "\e[0m" closes it; nothing
\* for a character without a case.
Badge(lv) ==
  CASE lv = "D" -> <<"30;44", " ", "D", " ", TRUE>>
    [] lv = "E" -> <<"30;41", " ", "E", " ", TRUE>>
    [] lv = "F" -> <<"5;30;41", " ", "F", " ", TRUE>>
    [] lv = "I" -> <<"30;42", " ", "I", " ", TRUE>>
    [] lv = "V" -> <<"37", " ", "V", " ", FALSE>>
    [] lv = "W" -> <<"30;43", " ", "W", " ", TRUE>>
    [] OTHER -> <<>>

\* One part of the record worker k has formatted in its log buffer: the
\* device name and colour, the time, owner and message of line `line` of its
\* source, the tag and its colour, the badge.
Chunk(k, half) ==
  [w |-> k, dev |-> wk[k].name, devcolor |-> wk[k].color,
   line |-> wk[k].nread, level |-> wk[k].level, badge |-> Badge(wk[k].level),
   tag |-> wk[k].tag, tagcolor |-> wk[k].tcolor, half |-> half]

\* (a write that lands ahead of what the stream holds)
FputsFront(stream, chunk) == <<chunk>> \o stream

\* fputs(log, stdout): the bytes go to the end of the stream
Fputs(stream, chunk) == Append(stream, chunk)

\* fputs(log, stdout) starts writing the bytes of the record ...
W_Fputs1(k) ==
  /\ At(k, "fputs")
  /\ out' = Fputs(out, Chunk(k, 1))
  /\ wk' = [wk EXCEPT ![k].pc = "fputs_rest"]
  /\ UNCHANGED <<streams, mainVars, discVars, shutdown, mapVars, ctrVars, lockVars,
                 histVars, envVars>>

\* ... writes the rest, returns; unlock; back to the top of the loop
W_Fputs2(k) ==
  /\ At(k, "fputs_rest")
  /\ out' = Fputs(out, Chunk(k, 2))
  /\ line_lock' \in UnlockOutcomes(line_lock, W(k))
  /\ wk' = [wk EXCEPT ![k].pc = "fgets", ![k].level = "", ![k].tag = "",
                      ![k].tcolor = NULL]
  /\ UNCHANGED <<streams, mainVars, discVars, shutdown, mapVars, ctrVars,
                 device_map_lock, tag_map_lock, next_color_lock, color_lock,
                 histVars, envVars>>

\* Device disconnected: pthread_mutex_lock(&device_map_lock)
W_TermLock(k) ==
  /\ At(k, "term_lock")
  /\ CanLock(device_map_lock)
  /\ device_map_lock' = W(k)
  /\ wk' = [wk EXCEPT ![k].pc = "term_del"]
  /\ UNCHANGED <<streams, mainVars, discVars, shutdown, mapVars, ctrVars,
                 tag_map_lock, line_lock, next_color_lock, color_lock,
                 out, histVars, envVars>>

\* (a delete that leaves the key in the map)
StrmapKeep(map, key) == map

\* strmap_del(map, key, NULL): the map without the key
StrmapDel(map, key) == [map EXCEPT ![key] = NULL]

\* The memory of a device struct after free(d).
Freed ==
  [pc |-> "done", name |-> "", color |-> NULL, fh |-> NULL, nopen |-> 0,
   retries |-> 0, streamed |-> FALSE, nread |-> 0, level |-> "", tag |-> "",
   tcolor |-> NULL]

\* strmap_del(&device_map, d->name, NULL); unlock; free(d); return NULL
W_TermDel(k) ==
  /\ At(k, "term_del")
  /\ device_map' = StrmapDel(device_map, wk[k].name)
  /\ device_map_lock' \in UnlockOutcomes(device_map_lock, W(k))
  /\ wk' = [wk EXCEPT ![k] = Freed]
  /\ UNCHANGED <<streams, mainVars, discVars, shutdown, tag_map, ctrVars,
                 tag_map_lock, line_lock, next_color_lock, color_lock,
                 out, histVars, envVars>>

WorkerNext ==
  \/ \E k \in Workers : W_Popen0(k)
  \/ \E k \in Workers : W_PopenOk(k)
  \/ \E k \in Workers : W_PopenFail(k)
  \/ \E k \in Workers : W_Sleep(k)
  \/ \E k \in Workers : W_LoopEnd(k)
  \/ \E k \in Workers : W_FgetsNoMatch(k)
  \/ \E k \in Workers, t \in LineTags, lv \in Levels : W_FgetsMatch(k, t, lv)
  \/ \E k \in Workers : W_TagLock1(k)
  \/ \E k \in Workers : W_TagGet(k)
  \/ \E k \in Workers : W_ColorLock(k)
  \/ \E k \in Workers : W_ColorAlloc(k)
  \/ \E k \in Workers : W_TagLock2(k)
  \/ \E k \in Workers : W_TagAdd(k)
  \/ \E k \in Workers : W_TagUnlockElse(k)
  \/ \E k \in Workers : W_LineLock(k)
  \/ \E k \in Workers : W_Fputs1(k)
  \/ \E k \in Workers : W_Fputs2(k)
  \/ \E k \in Workers : W_TermLock(k)
  \/ \E k \in Workers : W_TermDel(k)

Next == MainNext \/ DiscNext \/ WorkerNext

Spec == Init /\ [][Next]_vars

(* ======================= properties ======================= *)

\* The device structs whose thread ended at `return NULL` in the retry loop.
Exhausted == {k \in Workers : wk[k].pc = "exited"}

\* C1: a worker whose log source failed to open on every attempt never
\* entered the read loop, and once it has terminated the device registry
\* holds no entry for its identifier.
C1_ExhaustedWorkerLeavesNoEntry ==
  \A k \in Exhausted :
    wk[k].nopen = 0 => (~wk[k].streamed /\ device_map[wk[k].name] = NULL)

\* C2: every record emitted for a tag carries the same tag colour, the one
\* the tag registry holds for it since its first observation.
C2_OneColourPerTag ==
  /\ \A i, j \in 1..Len(out) : out[i].tag = out[j].tag => out[i].tagcolor = out[j].tagcolor
  /\ \A i \in 1..Len(out) : out[i].tagcolor = tag_map[out[i].tag]

\* The colour allocations made for tag t so far.
AllocationsFor(t) == {n \in 1..Len(tagAllocLog) : tagAllocLog[n].tag = t}

\* C3: of the concurrent attempts to insert one key exactly one performs an
\* insertion with its colour allocation and the others are no-ops: no tag
\* has two colour allocations, a tag that was allocated a colour ends with
\* that colour as its one entry, and a worker past its insertion holds the
\* registry's colour.
C3_InsertIfAbsentAtomic ==
  /\ \A t \in Tags : Cardinality(AllocationsFor(t)) <= 1
  /\ \A n \in 1..Len(tagAllocLog) :
       tag_map[tagAllocLog[n].tag] \in {NULL, tagAllocLog[n].color}
  /\ \A k \in Workers :
       wk[k].pc \in {"line_lock", "fputs", "fputs_rest"} => wk[k].tcolor = tag_map[wk[k].tag]

\* C4: the k-th device added to the device registry over the whole run has
\* palette index (k-1) mod COLOR_NMAX, and so has the k-th device struct as
\* long as it exists; the first device has colour index 0.
C4_KthDeviceColour ==
  /\ \A k \in 1..Len(devAddLog) : devAddLog[k] = (k - 1) % COLOR_NMAX
  /\ \A k \in Workers : wk[k].pc # "done" => wk[k].color = (k - 1) % COLOR_NMAX
  /\ \A i \in Ids : device_map[i] # NULL => device_map[i] <= Len(devAddLog)

\* C4 witness: the palette has wrapped: a thirteenth device is registered
\* and its worker runs with colour index 0.
C4_Witness ==
  \E i \in Ids :
    /\ device_map[i] = COLOR_NMAX + 1
    /\ wk[device_map[i]].pc = "fgets"
    /\ wk[device_map[i]].color = COLOR_RED

\* C5 (state part): the k-th tag newly entered into the tag registry has
\* palette index (k-1) mod COLOR_NMAX.
C5_KthTagColourInv ==
  \A k \in 1..Len(tagAddLog) : tag_map[tagAddLog[k]] = (k - 1) % COLOR_NMAX

\* C5: the k-th newly observed tag receives palette index (k-1) mod
\* COLOR_NMAX under every interleaving, and no step changes both the device
\* colour counter and the tag colour counter.
C5_KthTagColour ==
  /\ []C5_KthTagColourInv
  /\ [][dev_next_color' = dev_next_color \/ tag_next_color' = tag_next_color]_vars

(* ---- fairness: a thread that holds device_map_lock is not blocked and ---- *)
(* ---- the scheduler runs it, so it reaches its unlock; a thread that    ---- *)
(* ---- waits for a mutex that is free again and again gets it            ---- *)

HolderFairness ==
  /\ WF_vars(M_Count)
  /\ WF_vars(D_GetKnown) /\ WF_vars(D_GetNew) /\ WF_vars(D_Add)

WorkerFairness ==
  \A k \in 1..MaxFairDevices :
    /\ SF_vars(W_TermLock(k))
    /\ WF_vars(W_TermDel(k))

\* The runs of quiet devices: no log lines, no failing popen().
QuietInit ==
  InitWith([devices |-> MaxFairDevices, lines |-> 0, fails |-> 0,
            levels |-> {"I"}, ids |-> {"0A", "1B"}])

\* The steps such a run can take.
QuietNext ==
  \/ MainNext
  \/ DiscNext
  \/ \E k \in Workers : W_Popen0(k)
  \/ \E k \in Workers : W_PopenOk(k)
  \/ \E k \in Workers : W_LoopEnd(k)
  \/ \E k \in Workers : W_TermLock(k)
  \/ \E k \in Workers : W_TermDel(k)

FairSpec == QuietInit /\ [][QuietNext]_vars /\ HolderFairness /\ WorkerFairness

\* The device registry holds no pointer to device struct k.
Deregistered(k) == \A i \in Ids : device_map[i] # k

\* C6 (step part): a step that enters an identifier into the device registry
\* enters the newest device struct, whose thread has not started, and its
\* colour is the next of the device round-robin sequence.
C6_ReAddStep ==
  \A i \in Ids :
    (device_map[i] = NULL /\ device_map'[i] # NULL) =>
      /\ device_map'[i] = Len(wk)
      /\ \A k \in Workers : k < device_map'[i] => wk[k].pc # "unstarted"
      /\ wk'[device_map'[i]].pc = "unstarted"
      /\ wk'[device_map'[i]].color = Len(devAddLog) % COLOR_NMAX

\* C6: after a device's log source reached end-of-stream its registry entry
\* is eventually removed, and a later discovery pass that reports the
\* identifier registers a brand-new worker with the next colour of the
\* device round-robin sequence.
C6_RemovedThenReAdded ==
  /\ \A k \in 1..MaxFairDevices : At(k, "term_lock") ~> Deregistered(k)
  /\ [][C6_ReAddStep]_vars

\* C6 witness: an identifier is registered again after its first worker ended
\* at end-of-stream, with another colour than that worker had.
C6_Witness ==
  \E i \in Ids :
    /\ device_map[i] = 3
    /\ wk[3].name = i /\ wk[3].color = 2 /\ wk[3].pc = "fgets"
    /\ \E k \in {1, 2} : wk[k].pc = "done"

\* The workers inside fputs(log, stdout).
Writing == {k \in Workers : wk[k].pc \in {"fputs", "fputs_rest"}}

\* C7: at most one worker writes to the output stream at a time, and the
\* stream holds whole records only: the first part of a record is followed
\* by the rest of the same record, or its writer is still writing it.
C7_OneWriter ==
  /\ Cardinality(Writing) <= 1
  /\ \A n \in 1..Len(out) :
       IF out[n].half = 1
       THEN IF n = Len(out)
            THEN At(out[n].w, "fputs_rest")
            ELSE out[n + 1] = [out[n] EXCEPT !.half = 2]
       ELSE n > 1 /\ out[n - 1] = [out[n] EXCEPT !.half = 1]

\* C7 witness: a worker is in the middle of writing a record while another
\* worker has a record ready and waits for line_lock.
C7_Witness ==
  \E k1, k2 \in Workers :
    /\ k1 # k2
    /\ wk[k1].pc = "fputs_rest"
    /\ wk[k2].pc = "line_lock"

\* A worker that runs and has not yet taken its entry out of the registry.
Live(k) == wk[k].pc \notin {"unstarted", "exited", "done"}

\* C8: every live device has exactly one device-registry entry (the entry of
\* its identifier points to it), no two live devices share an identifier,
\* and no registry entry points to a device whose worker has terminated.
C8_LiveDevicesRegistered ==
  /\ \A k \in Workers : Live(k) => device_map[wk[k].name] = k
  /\ \A k1, k2 \in Workers : (Live(k1) /\ Live(k2) /\ k1 # k2) => wk[k1].name # wk[k2].name
  /\ \A i \in Ids : device_map[i] # NULL => wk[device_map[i]].pc \notin {"exited", "done"}

\* The threads between a lock of tag_map_lock and the unlock that matches it.
InTagRegistry == {k \in Workers : wk[k].pc \in {"tag_get", "tag_add"}}

\* The threads between a lock of device_map_lock and the unlock that matches it.
InDeviceRegistry ==
  {W(k) : k \in {j \in Workers : wk[j].pc = "term_del"}}
    \cup (IF dpc \in {"d_get", "d_add"} THEN {DiscT} ELSE {})
    \cup (IF mpc = "m_count" THEN {MainT} ELSE {})

\* C9: no two threads are inside an operation on the tag registry at the
\* same time, nor two inside an operation on the device registry.
C9_RegistryOpsSerialized ==
  /\ Cardinality(InTagRegistry) <= 1
  /\ Cardinality(InDeviceRegistry) <= 1

\* The threads in a blocking call: popen, fgets on a source, sleep, join.
Blocked ==
  {W(k) : k \in {j \in Workers : wk[j].pc \in {"popen0", "popen", "sleep", "fgets"}}}
    \cup (IF dpc \in {"d_check", "d_fgets", "d_sleep"} THEN {DiscT} ELSE {})
    \cup (IF mpc \in {"m_sleep", "m_join"} THEN {MainT} ELSE {})

\* C10: no thread in a blocking call holds a registry lock or a
\* colour-counter lock.
C10_NoLockWhileBlocked ==
  \A t \in Blocked :
    /\ device_map_lock # t /\ tag_map_lock # t
    /\ next_color_lock # t /\ color_lock # t

\* C10 witness: every kind of thread blocks after it has used a lock: the
\* discovery thread reads the listing after it registered a device, main
\* waits in pthread_join after counting, and a worker reads its source after
\* it emitted a record of a tag it allocated a colour for.
C10_Witness ==
  /\ dpc = "d_fgets" /\ Len(devAddLog) > 0
  /\ mpc = "m_join"
  /\ \E k \in Workers : wk[k].pc = "fgets" /\ Len(tagAddLog) > 0 /\ Len(out) > 0

\* C11: a step in which a worker reads a line and does not go on to format
\* it (the line does not match) writes nothing to the output, changes neither
\* the tag registry nor the tag colour counter, and leaves the worker at the
\* top of its read loop, where the next line is read.
C11_NoMatchStep ==
  \A k \in Workers :
    (k \in 1..Len(wk') /\ wk'[k].nread = wk[k].nread + 1 /\ wk'[k].pc # "tag_lock1") =>
      /\ out' = out
      /\ tag_map' = tag_map /\ tag_next_color' = tag_next_color
      /\ tagAddLog' = tagAddLog /\ tagAllocLog' = tagAllocLog
      /\ wk'[k].pc = "fgets" /\ ~shutdown'

C11_NoMatchSkipped == [][C11_NoMatchStep]_vars

\* The lines of worker k's source that have a record in the output.
Emitted(k) == {out[n].line : n \in {m \in 1..Len(out) : out[m].w = k}}

\* C11 witness: a worker has emitted the record of the second line of its
\* source and none of the first: the first line did not match, and the line
\* after it was read and processed.
C11_Witness ==
  \E k \in Workers : wk[k].pc = "fgets" /\ wk[k].nread = 2 /\ Emitted(k) = {2}

\* C12: the records of one worker stand in the output in the order in which
\* it read their lines from its source: of two parts written by the same
\* worker the later one belongs to the same line or to a later line, and no
\* line is written twice.
C12_SourceOrder ==
  \A i, j \in 1..Len(out) :
    (i < j /\ out[i].w = out[j].w) =>
      /\ out[i].line <= out[j].line
      /\ out[i].line = out[j].line => (out[i].half = 1 /\ out[j].half = 2)

\* C12 witness: a worker has two records in the output and a record of
\* another worker stands between them.
C12_Witness ==
  \E a, b, c \in 1..Len(out) :
    /\ a < b /\ b < c
    /\ out[a].w = out[c].w /\ out[a].line < out[c].line
    /\ out[b].w # out[a].w

\* The level characters that have a case in the switch.
Badged == {"D", "E", "F", "I", "V", "W"}

\* The positions in the output of the parts written for line n of worker k.
PartsOf(k, n) == {m \in 1..Len(out) : out[m].w = k /\ out[m].line = n}

\* C17 (state part): a part of a record carries the badge of its level, the
\* three characters " ", level, " " wrapped in a colour, when the level is
\* one of D, E, F, I, V, W and no badge otherwise; it carries the device,
\* the line's fields and the tag in both cases; no line has more than one
\* record, and a line still being formatted has none yet.
C17_RecordInv ==
  /\ \A n \in 1..Len(out) :
       /\ IF out[n].level \in Badged
          THEN /\ Len(out[n].badge) = 5
               /\ SubSeq(out[n].badge, 2, 4) = <<" ", out[n].level, " ">>
          ELSE out[n].badge = <<>>
       /\ out[n].level \in Levels
       /\ out[n].dev \in DOMAIN device_map /\ out[n].devcolor \in 0..(COLOR_NMAX - 1)
       /\ out[n].line >= 1
       /\ out[n].tag \in LineTags /\ out[n].tagcolor \in 0..(COLOR_NMAX - 1)
  /\ \A k \in Workers :
       /\ \A n \in 1..wk[k].nread : Cardinality(PartsOf(k, n)) \in {0, 2}
            \/ (n = wk[k].nread /\ wk[k].pc = "fputs_rest" /\ Cardinality(PartsOf(k, n)) = 1)
       /\ wk[k].pc \in {"tag_lock1", "tag_get", "color_lock", "color_alloc",
                        "tag_lock2", "tag_add", "tag_unlock_else", "line_lock",
                        "fputs"} => PartsOf(k, wk[k].nread) = {}

\* C17 (step part): when a worker that read a matching line is back at the
\* top of its loop, the output holds the two parts of that line's record.
C17_RecordStep ==
  \A k \in Workers :
    (wk[k].level # "" /\ wk'[k].level = "") =>
      /\ wk'[k].pc = "fgets"
      /\ Len(out') = Len(out) + 1
      /\ out'[Len(out')].w = k /\ out'[Len(out')].line = wk[k].nread
      /\ out'[Len(out')].level = wk[k].level /\ out'[Len(out')].half = 2
      /\ Cardinality({m \in 1..Len(out') : out'[m].w = k /\ out'[m].line = wk[k].nread}) = 2

\* C17: every matching line gets exactly one record whatever its level
\* character; a level in {D, E, F, I, V, W} adds its badge, any other level
\* adds none, and the other fields are emitted in both cases.
C17_OneRecordPerMatch == []C17_RecordInv /\ [][C17_RecordStep]_vars

\* C17 witness: one worker has emitted a whole record of a line with a level
\* the switch does not know and a whole record of a line with level V.
C17_Witness ==
  \E k \in Workers :
    /\ wk[k].pc = "fgets" /\ wk[k].nread = 2
    /\ \E a, b \in 1..Len(out) :
         /\ out[a].w = k /\ out[a].level = "X" /\ out[a].half = 2 /\ out[a].badge = <<>>
         /\ out[b].w = k /\ out[b].level = "V" /\ out[b].half = 2 /\ out[b].badge # <<>>

\* C13 (step part): an entry of the device registry changes only by being
\* removed, by the worker it points to, at its strmap_del; a step of the
\* discovery thread leaves every entry as it is; the device an entry points
\* to keeps its colour; and a device struct is made, and a colour taken
\* from the device counter, only for a name that has no entry.
C13_EntryStep ==
  /\ \A i \in DOMAIN device_map :
       device_map[i] # NULL =>
         /\ device_map'[i] # device_map[i] =>
              /\ device_map'[i] = NULL
              /\ wk[device_map[i]].pc = "term_del" /\ wk[device_map[i]].name = i
              /\ wk'[device_map[i]].pc = "done"
              /\ dpc' = dpc
         /\ device_map'[i] = device_map[i] =>
              wk'[device_map[i]].color = wk[device_map[i]].color
  /\ (dev_next_color' # dev_next_color \/ Len(wk') # Len(wk)) =>
       /\ dpc = "d_color" /\ device_map[dname] = NULL
       /\ \A k \in Workers : Live(k) => wk[k].name # dname

\* C13: the discovery loop never removes and never overwrites an entry of
\* the device registry and allocates no colour for a registered identifier;
\* only the worker removes its own entry.
C13_DiscoveryKeepsEntries == [][C13_EntryStep]_vars

\* C13 witness: a discovery pass has looked up an identifier the listing
\* reports again while the identifier is registered and its worker reads its
\* source.
C13_Witness ==
  /\ dpc = "d_get" /\ device_map_lock = DiscT
  /\ device_map[dname] # NULL
  /\ wk[device_map[dname]].pc = "fgets" /\ wk[device_map[dname]].name = dname
  /\ Len(devAddLog) >= 2

\* C14: a worker that left its read loop and ended has no log source open.
C14_SourceReleased ==
  \A k \in Workers : wk[k].pc = "done" => streams[k] = 0

\* The popen() calls worker k has made while it is in its open phase: the
\* one ahead of the loop and one per count of `retries`.
OpenCalls(k) ==
  IF wk[k].pc \in {"popen", "sleep", "exited"} THEN 1 + wk[k].retries ELSE 0

\* C16: a worker makes at most RETRIES_NMAX + 1 attempts to open its log
\* source (one attempt and RETRIES_NMAX retries).
C16_BoundedOpenAttempts ==
  \A k \in Workers : OpenCalls(k) <= RETRIES_NMAX + 1

\* The thread at each position from which the next step is an unlock,
\* with the mutex that step unlocks.
Unlocking ==
  {<<W(k), tag_map_lock>> :
     k \in {j \in Workers : wk[j].pc \in {"tag_get", "tag_add", "tag_unlock_else"}}}
    \cup {<<W(k), color_lock>> : k \in {j \in Workers : wk[j].pc = "color_alloc"}}
    \cup {<<W(k), line_lock>> : k \in {j \in Workers : wk[j].pc = "fputs_rest"}}
    \cup {<<W(k), device_map_lock>> : k \in {j \in Workers : wk[j].pc = "term_del"}}
    \cup (IF dpc \in {"d_get", "d_add"} THEN {<<DiscT, device_map_lock>>} ELSE {})
    \cup (IF dpc = "d_color" THEN {<<DiscT, next_color_lock>>} ELSE {})
    \cup (IF mpc = "m_count" THEN {<<MainT, device_map_lock>>} ELSE {})

\* C18: a thread about to unlock a mutex holds that mutex.
C18_UnlockByHolder == \A u \in Unlocking : u[2] = u[1]

\* C19: a worker has at most one log source open at any time.
C19_OneOpenSource == \A k \in Workers : streams[k] <= 1

\* C20: the identifier captured from a listing line fits, with its
\* terminator, the name buffer it is copied into, and the name the discovery
\* thread looks up and registers is the captured text.
C20_NameFits ==
  /\ dpc \in {"d_lock1", "d_get", "d_nlock", "d_color"} =>
       (dname \in env.ids /\ Len(dname) + 1 <= DEVICE_NAME_NCHARS)
  /\ \A k \in Workers :
       wk[k].pc # "done" =>
         (wk[k].name \in env.ids /\ Len(wk[k].name) + 1 <= DEVICE_NAME_NCHARS)

====
